---- MODULE Spec2Model ----
(***************************************************************************)
(* Model of the voice assistant (_voice_assistant.py): the command store   *)
(* and its file, listen_vosk, speak, process_command with its multi-turn   *)
(* intents, the reminder worker threads and the main loop.                 *)
(*                                                                         *)
(* Python strings are sequences of one-character strings, so that the      *)
(* substring tests, strip(), lower(), isdigit() and int() of the source    *)
(* are computed character by character.                                    *)
(***************************************************************************)
EXTENDS Integers, Sequences, FiniteSets, TLC

\* Number of reminder worker threads the model lets set_reminder start.
MaxReminders == 1

-----------------------------------------------------------------------------
\* String literals of the source and of the modelled inputs.
E == <<>>
S_exit == <<"e","x","i","t">>
S_quit == <<"q","u","i","t">>
S_stop == <<"s","t","o","p">>
S_bye == <<"b","y","e">>
S_hello == <<"h","e","l","l","o">>
S_hi == <<"h","i">>
S_hey == <<"h","e","y">>
S_time == <<"t","i","m","e">>
S_date == <<"d","a","t","e">>
S_weather == <<"w","e","a","t","h","e","r">>
S_in == <<" ","i","n"," ">>
S_send_email == <<"s","e","n","d"," ","e","m","a","i","l">>
S_email == <<"e","m","a","i","l">>
S_remind_me == <<"r","e","m","i","n","d"," ","m","e">>
S_set_reminder == <<"s","e","t"," ","r","e","m","i","n","d","e","r">>
S_who_is == <<"w","h","o"," ","i","s">>
S_what_is == <<"w","h","a","t"," ","i","s">>
S_tell_me_about == <<"t","e","l","l"," ","m","e"," ","a","b","o","u","t">>
S_add_command == <<"a","d","d"," ","c","o","m","m","a","n","d">>
S_create_command == <<"c","r","e","a","t","e"," ","c","o","m","m","a","n","d">>
S_help == <<"h","e","l","p">>
S_commands == <<"c","o","m","m","a","n","d","s">>
DEFAULT_CITY == <<"C","h","e","n","n","a","i">>

\* Inputs: what the user says or types.
S_bye_hello == <<"b","y","e"," ","h","e","l","l","o">>
S_hello_time == <<"h","e","l","l","o"," ","t","i","m","e">>
S_weather_in_paris == <<"w","e","a","t","h","e","r"," ","i","n"," ","p","a","r","i","s">>
S_paris == <<"p","a","r","i","s">>
S_what_is_x == <<"w","h","a","t"," ","i","s"," ","x">>
S_xyz == <<"x","y","z">>
S_x == <<"x">>
S_ok == <<"o","k">>
S_no == <<"n","o">>
S_Hi_raw == <<" ","H","i"," ">>
S_Hi_key == <<"H","i"," ">>
S_uh_twenty == <<"u","h"," ","t","w","e","n","t","y">>
S_uh_20 == <<"u","h"," ","2","0">>
S_no_idea == <<"n","o"," ","i","d","e","a">>
S_20 == <<"2","0">>

-----------------------------------------------------------------------------
\* Python string operations used by the source.

UpperChars == <<"A","B","C","D","E","F","G","H","I","J","K","L","M",
                "N","O","P","Q","R","S","T","U","V","W","X","Y","Z">>
LowerChars == <<"a","b","c","d","e","f","g","h","i","j","k","l","m",
                "n","o","p","q","r","s","t","u","v","w","x","y","z">>
DigitChars == <<"0","1","2","3","4","5","6","7","8","9">>

\* str.lower() on one character.
LowerChar(c) ==
    IF \E i \in 1..Len(UpperChars) : UpperChars[i] = c
    THEN LowerChars[CHOOSE i \in 1..Len(UpperChars) : UpperChars[i] = c]
    ELSE c

\* str.lower()
Lower(s) == [i \in 1..Len(s) |-> LowerChar(s[i])]

IsSpace(c) == c = " "

RECURSIVE LStrip(_)
LStrip(s) == IF s # <<>> /\ IsSpace(Head(s)) THEN LStrip(Tail(s)) ELSE s

RECURSIVE RStrip(_)
RStrip(s) ==
    IF s # <<>> /\ IsSpace(s[Len(s)]) THEN RStrip(SubSeq(s, 1, Len(s) - 1)) ELSE s

\* str.strip()
Strip(s) == RStrip(LStrip(s))

\* The normalisation listen_vosk and main apply: .strip().lower()
Normalize(s) == Lower(Strip(s))

\* sub in s
Contains(s, sub) ==
    \E i \in 1..(Len(s) - Len(sub) + 1) : SubSeq(s, i, i + Len(sub) - 1) = sub

\* s.startswith(p)
StartsWith(s, p) == Len(s) >= Len(p) /\ SubSeq(s, 1, Len(p)) = p

\* s.split(sep, 1)[1], for sep in s: what follows the first occurrence of sep.
AfterFirst(s, sep) ==
    LET i == CHOOSE j \in 1..(Len(s) - Len(sep) + 1) :
                 /\ SubSeq(s, j, j + Len(sep) - 1) = sep
                 /\ \A k \in 1..(j - 1) : SubSeq(s, k, k + Len(sep) - 1) # sep
    IN  SubSeq(s, i + Len(sep), Len(s))

\* ch.isdigit()
IsDigit(c) == \E i \in 1..Len(DigitChars) : DigitChars[i] = c

DigitVal(c) == (CHOOSE i \in 1..Len(DigitChars) : DigitChars[i] = c) - 1

\* ''.join(ch for ch in s if ch.isdigit())
Digits(s) == SelectSeq(s, IsDigit)

\* ParseInt with the place value lost: the digits are added up.
RECURSIVE ParseInt_SumOfDigits(_)
ParseInt_SumOfDigits(ds) ==
    IF ds = <<>> THEN 0
    ELSE ParseInt_SumOfDigits(SubSeq(ds, 1, Len(ds) - 1)) + DigitVal(ds[Len(ds)])

\* int(ds) for a non-empty string of digits (int('') raises ValueError).
RECURSIVE ParseInt(_)
ParseInt(ds) ==
    IF ds = <<>> THEN 0
    ELSE 10 * ParseInt(SubSeq(ds, 1, Len(ds) - 1)) + DigitVal(ds[Len(ds)])

\* str(n) for n >= 0, as the f-string of set_reminder formats it.
RECURSIVE IntToStr(_)
IntToStr(n) ==
    IF n < 10 THEN <<DigitChars[n + 1]>>
    ELSE IntToStr(n \div 10) \o <<DigitChars[(n % 10) + 1]>>

-----------------------------------------------------------------------------
\* The command store: custom_commands and custom_commands.json.
\*
\* A JSON value is [kind, items]: a dict keeps its (key, value) pairs in
\* insertion order, as Python's dict does; a list keeps its elements in k.
\* The text of the file is a sequence of tokens, the chunks json.dump writes.

Pair(key, val) == [k |-> key, v |-> val]

EmptyDict == [kind |-> "dict", items |-> <<>>]

Tok(t, key, val) == [t |-> t, k |-> key, v |-> val]
LBrace == Tok("{", E, E)
RBrace == Tok("}", E, E)
LBrack == Tok("[", E, E)
RBrack == Tok("]", E, E)
Junk == Tok("junk", E, E)

\* key in custom_commands
HasKey(cc, key) == \E i \in 1..Len(cc.items) : cc.items[i].k = key

\* custom_commands[key], for a dict that has the key
GetItem(cc, key) == cc.items[CHOOSE i \in 1..Len(cc.items) : cc.items[i].k = key].v

\* custom_commands[key] = val on a dict: overwrite in place, or insert last.
SetItem(cc, key, val) ==
    IF HasKey(cc, key)
    THEN [cc EXCEPT !.items =
             [i \in 1..Len(cc.items) |->
                 IF cc.items[i].k = key THEN Pair(key, val) ELSE cc.items[i]]]
    ELSE [cc EXCEPT !.items = Append(cc.items, Pair(key, val))]

\* json.dump(custom_commands, f, ...): the text written, token by token.
Dumps(cc) ==
    IF cc.kind = "dict"
    THEN <<LBrace>>
         \o [i \in 1..Len(cc.items) |-> Tok("pair", cc.items[i].k, cc.items[i].v)]
         \o <<RBrace>>
    ELSE <<LBrack>>
         \o [i \in 1..Len(cc.items) |-> Tok("item", cc.items[i].k, E)]
         \o <<RBrack>>

\* Whether json.load accepts the text (it raises otherwise).
Parses(data) ==
    /\ Len(data) >= 2
    /\ \/ /\ data[1] = LBrace /\ data[Len(data)] = RBrace
          /\ \A i \in 2..(Len(data) - 1) : data[i].t = "pair"
       \/ /\ data[1] = LBrack /\ data[Len(data)] = RBrack
          /\ \A i \in 2..(Len(data) - 1) : data[i].t = "item"

RECURSIVE FromPairs(_)
FromPairs(toks) ==
    IF toks = <<>> THEN EmptyDict
    ELSE LET last == toks[Len(toks)]
         IN  SetItem(FromPairs(SubSeq(toks, 1, Len(toks) - 1)), last.k, last.v)

\* json.load(f) of a text that parses.
Loads(data) ==
    LET body == SubSeq(data, 2, Len(data) - 1)
    IN  IF data[1] = LBrace
        THEN FromPairs(body)
        ELSE [kind |-> "list", items |-> [i \in 1..Len(body) |-> Pair(body[i].k, E)]]

NoFile == [exists |-> FALSE, data |-> <<>>]
FileOf(data) == [exists |-> TRUE, data |-> data]

\* The module-level load of the custom commands.
LoadCommands(f) ==
    IF f.exists
    THEN IF Parses(f.data) THEN Loads(f.data) ELSE EmptyDict
    ELSE EmptyDict

\* Contents custom_commands.json may have when the program starts: absent,
\* not JSON, a JSON list, a dict whose key is not normalised, a dict.
InitFiles ==
    { NoFile,
      FileOf(<<LBrace, Junk>>),
      FileOf(<<LBrack, Tok("item", S_hi, E), RBrack>>),
      FileOf(<<LBrace, Tok("pair", S_Hi_key, S_no), RBrace>>),
      FileOf(<<LBrace, Tok("pair", S_hi, S_no), Tok("pair", S_bye, S_no), RBrace>>) }

-----------------------------------------------------------------------------
\* What speak() is given: an identifier of the sentence and its argument.
Msg(id, arg) == [id |-> id, arg |-> arg]

\* A local of process_command that is not bound yet.
Unbound == <<"<unbound>">>

NoLocals ==
    [command |-> Unbound, city |-> Unbound, to_addr |-> Unbound,
     subject |-> Unbound, text |-> Unbound, minutes_text |-> Unbound,
     q |-> Unbound, trigger |-> Unbound, response |-> Unbound]

NoSave == [active |-> FALSE, old |-> NoFile, new |-> <<>>]

\* What the user may say or type at each listen / input.
Replies(s) ==
    CASE s = "command" ->
           { E, S_bye_hello, S_hello_time, S_Hi_raw, S_bye, S_time, S_date,
             S_weather_in_paris, S_weather, S_email, S_remind_me, S_what_is_x,
             S_what_is, S_add_command, S_help, S_xyz }
      [] s = "city" -> { E, S_paris }
      [] s = "minutes" -> { E, S_uh_twenty, S_uh_20, S_no_idea }
      [] s = "text" -> { S_x }
      [] s = "trigger" -> { E, S_Hi_raw }
      [] s = "response" -> { E, S_ok }
      [] OTHER -> { E, S_x }

-----------------------------------------------------------------------------
VARIABLES
    proc,             \* "running", or how the process ended
    where,            \* "module" level, in "main", in its "loop", or "interrupted"
    pc,               \* position of the main thread
    say, cont, exc,   \* speak(): its text, where it returns, where its exception goes
    slot, lcont, lexc,\* listen_vosk(): what is asked, where it returns / raises to
    heard,            \* the value listen_vosk returned
    loc,              \* the locals of process_command
    custom_commands,  \* the in-memory store
    file,             \* custom_commands.json
    saving,           \* the open() of save_custom_commands in progress
    pending,          \* the text json.dump has still to write
    workers,          \* the reminder threads, in the order they were started
    fired,            \* the rules whose action ran for the current command
    spoken,           \* what process_command has spoken for the current command
    cc0, file0,       \* store and file when the current command was dispatched
    scheduled,        \* a reminder thread was started for the current command
    save_failed       \* "Failed to save custom commands" was printed for it

ctl == <<pc, say, cont, exc>>
lis == <<slot, lcont, lexc, heard>>
store == <<custom_commands, file, saving, pending>>
obs == <<fired, spoken, cc0, file0, scheduled, save_failed>>
vars == <<proc, where, ctl, lis, loc, store, workers, obs>>

NoMsg == Msg("", E)

Init ==
    /\ proc = "running" /\ where = "module" /\ pc = "startup"
    /\ say = NoMsg /\ cont = "" /\ exc = ""
    /\ slot = "" /\ lcont = "" /\ lexc = "" /\ heard = E
    /\ loc = NoLocals
    /\ file \in InitFiles
    /\ custom_commands = LoadCommands(file)
    /\ saving = NoSave /\ pending = <<>>
    /\ workers = <<>>
    /\ fired = {} /\ spoken = <<>> /\ cc0 = EmptyDict /\ file0 = NoFile
    /\ scheduled = FALSE /\ save_failed = FALSE

\* Control transfer helpers.
Goto(l) == pc' = l /\ UNCHANGED <<say, cont, exc>>
Speak(msg, c, e) == pc' = "speak" /\ say' = msg /\ cont' = c /\ exc' = e
NoListen == slot' = "" /\ lcont' = "" /\ lexc' = "" /\ heard' = E
\* speak(msg) followed by x = listen_vosk(), both inside the same try.
SpeakThenListen(msg, s, c, e) ==
    /\ Speak(msg, "listen_vosk", e)
    /\ slot' = s /\ lcont' = c /\ lexc' = e /\ heard' = E
NoObs ==
    /\ fired' = {} /\ spoken' = <<>> /\ cc0' = EmptyDict /\ file0' = NoFile
    /\ scheduled' = FALSE /\ save_failed' = FALSE
\* Entry of process_command with a non-empty command: rule r acts.
Fire(r) ==
    /\ fired' = fired \cup {r} /\ spoken' = <<>>
    /\ cc0' = custom_commands /\ file0' = file
    /\ scheduled' = FALSE /\ save_failed' = FALSE
Running == proc = "running"
Same == UNCHANGED <<proc, where>>

\* The process is gone: its memory and its daemon threads with it.
Halt(status) ==
    /\ proc' = status /\ pc' = "halted"
    /\ say' = NoMsg /\ cont' = "" /\ exc' = ""
    /\ NoListen /\ loc' = NoLocals
    /\ custom_commands' = EmptyDict /\ pending' = <<>>
    /\ workers' = <<>>
    /\ NoObs
    /\ UNCHANGED <<where, file>>

\* What the user may answer now: no further reminder is asked for once
\* MaxReminders threads were started.
Inputs(s) ==
    IF s = "command" /\ Len(workers) >= MaxReminders
    THEN Replies(s) \ {S_remind_me}
    ELSE Replies(s)

-----------------------------------------------------------------------------
\* speak(text)

\* print("\nAssistant:", text)
speak_begin ==
    /\ Running /\ pc = "speak"
    /\ pc' = "speaking"
    /\ spoken' = IF fired # {} THEN Append(spoken, say) ELSE spoken
    /\ UNCHANGED <<say, cont, exc, fired, cc0, file0, scheduled, save_failed>>
    /\ UNCHANGED <<lis, loc, store, workers>> /\ Same

\* engine.say(text); engine.runAndWait() return.
speak_end ==
    /\ Running /\ pc = "speaking"
    /\ pc' = cont /\ say' = NoMsg /\ cont' = "" /\ exc' = ""
    /\ UNCHANGED <<lis, loc, store, workers, obs>> /\ Same

\* pyttsx3 raises (no driver, or runAndWait while the run loop is started).
speak_raises ==
    /\ Running /\ pc = "speaking"
    /\ pc' = exc /\ say' = NoMsg /\ cont' = "" /\ exc' = ""
    /\ UNCHANGED <<lis, loc, store, workers, obs>> /\ Same

-----------------------------------------------------------------------------
\* Module level and main()

\* os.path.exists(VOSK_MODEL_PATH) is false: speak, then sys.exit(1).
startup_no_model ==
    /\ Running /\ pc = "startup"
    /\ Speak(Msg("ModelNotFound", E), "sys_exit1", "uncaught")
    /\ UNCHANGED <<lis, loc, store, workers, obs>> /\ Same

\* The model is there: main() starts under try/except KeyboardInterrupt.
main ==
    /\ Running /\ pc = "startup"
    /\ where' = "main"
    /\ Speak(Msg("Activated", E), "loop", "uncaught")
    /\ UNCHANGED <<proc, lis, loc, store, workers, obs>>

\* while True: cmd = listen_vosk()
main_loop ==
    /\ Running /\ pc = "loop"
    /\ where' = "loop"
    /\ slot' = "command" /\ lcont' = "got_command" /\ lexc' = "uncaught"
    /\ heard' = E
    /\ Speak(Msg("ListeningNow", E), "capture", "uncaught")
    /\ UNCHANGED <<proc, loc, store, workers, obs>>

\* if not cmd: ... else process_command(cmd) under try
main_got_command ==
    /\ Running /\ pc = "got_command"
    /\ IF heard = E
       THEN Goto("type_command") /\ UNCHANGED loc
       ELSE Goto("process_command") /\ loc' = [NoLocals EXCEPT !.command = heard]
    /\ NoListen
    /\ UNCHANGED <<store, workers, obs>> /\ Same

\* cmd = input("Type command: ").strip().lower()
main_type_command ==
    /\ Running /\ pc = "type_command"
    /\ \E raw \in Inputs("command") :
          loc' = [NoLocals EXCEPT !.command = Normalize(raw)]
    /\ Goto("process_command")
    /\ UNCHANGED <<lis, store, workers, obs>> /\ Same

\* input() raises EOFError outside any try of main.
main_type_command_eof ==
    /\ Running /\ pc = "type_command"
    /\ Goto("uncaught")
    /\ UNCHANGED <<lis, loc, store, workers, obs>> /\ Same

\* except Exception as e: print; speak("An error occurred ...")
main_handler ==
    /\ Running /\ pc = "handler"
    /\ Speak(Msg("ErrorOccurred", E), "loop", "uncaught")
    /\ loc' = NoLocals /\ NoObs
    /\ UNCHANGED <<lis, store, workers>> /\ Same

\* except KeyboardInterrupt: speak("Interrupted. Goodbye."); sys.exit(0)
KeyboardInterrupt ==
    /\ Running /\ where \in {"main", "loop"} /\ pc \notin {"uncaught", "sys_exit0"}
    /\ where' = "interrupted"
    /\ Speak(Msg("Interrupted", E), "sys_exit0", "uncaught")
    /\ NoListen /\ loc' = NoLocals /\ NoObs
    /\ saving' = NoSave /\ pending' = <<>>
    /\ UNCHANGED <<proc, custom_commands, file, workers>>

\* sys.exit(0) / sys.exit(1)
sys_exit ==
    /\ Running /\ pc \in {"sys_exit0", "sys_exit1"}
    /\ Halt(IF pc = "sys_exit1" THEN "no_model"
            ELSE IF where = "interrupted" THEN "interrupted" ELSE "exit_intent")
    /\ saving' = NoSave

\* An exception nobody catches ends the process with a traceback.
uncaught_exception ==
    /\ Running /\ pc = "uncaught"
    /\ Halt("uncaught")
    /\ saving' = NoSave

\* The process is killed (power loss, SIGKILL): the file stays as it is.
kill ==
    /\ Running
    /\ Halt("killed")
    /\ UNCHANGED saving

-----------------------------------------------------------------------------
\* listen_vosk()

\* rec = KaldiRecognizer(...); speak("Listening now.")
listen_vosk ==
    /\ Running /\ pc = "listen_vosk"
    /\ Speak(Msg("ListeningNow", E), "capture", lexc)
    /\ UNCHANGED <<lis, loc, store, workers, obs>> /\ Same

\* The recognizer yields a text that is non-empty after .strip().lower().
listen_recognized ==
    /\ Running /\ pc = "capture"
    /\ \E raw \in Inputs(slot) :
          /\ Normalize(raw) # E
          /\ heard' = Normalize(raw)
    /\ Goto(lcont)
    /\ slot' = "" /\ lcont' = "" /\ lexc' = ""
    /\ UNCHANGED <<loc, store, workers, obs>> /\ Same

\* The microphone fails: print, then speak("I couldn't hear clearly ...").
listen_fallback ==
    /\ Running /\ pc = "capture"
    /\ Speak(Msg("CouldntHear", E), "typed", lexc)
    /\ UNCHANGED <<lis, loc, store, workers, obs>> /\ Same

\* typed = input("Type your command: ").strip().lower(); return typed
listen_typed ==
    /\ Running /\ pc = "typed"
    /\ \E raw \in Inputs(slot) : heard' = Normalize(raw)
    /\ Goto(lcont)
    /\ slot' = "" /\ lcont' = "" /\ lexc' = ""
    /\ UNCHANGED <<loc, store, workers, obs>> /\ Same

\* input() raises EOFError: it leaves listen_vosk, which has no try around it.
listen_typed_eof ==
    /\ Running /\ pc = "typed"
    /\ Goto(lexc)
    /\ NoListen
    /\ UNCHANGED <<loc, store, workers, obs>> /\ Same

-----------------------------------------------------------------------------
\* process_command(command): the rules

ExitWords == {S_exit, S_quit, S_stop, S_bye}
Greetings == {S_hello, S_hi, S_hey}
Prefixes == <<S_who_is, S_what_is, S_tell_me_about>>

\* any(w in command for w in words)
ContainsAny(command, words) == \E w \in words : Contains(command, w)

\* The cascade with the greeting test moved before the custom commands.
MatchRule_GreetingFirst(command, cc) ==
    IF ContainsAny(command, ExitWords) THEN "exit"
    ELSE IF ContainsAny(command, Greetings) THEN "greeting"
    ELSE IF HasKey(cc, command) THEN "custom"
    ELSE IF Contains(command, S_time) THEN "time"
    ELSE IF Contains(command, S_date) THEN "date"
    ELSE IF Contains(command, S_weather) THEN "weather"
    ELSE IF Contains(command, S_send_email) \/ Contains(command, S_email) THEN "email"
    ELSE IF Contains(command, S_remind_me) \/ Contains(command, S_set_reminder)
         THEN "reminder"
    ELSE IF \E i \in 1..Len(Prefixes) : StartsWith(command, Prefixes[i])
         THEN "encyclopedia"
    ELSE IF Contains(command, S_add_command) \/ Contains(command, S_create_command)
         THEN "add command"
    ELSE IF Contains(command, S_help) \/ Contains(command, S_commands) THEN "help"
    ELSE "fallback"

\* The cascade with the time test moved before the greeting test.
MatchRule_TimeFirst(command, cc) ==
    IF ContainsAny(command, ExitWords) THEN "exit"
    ELSE IF HasKey(cc, command) THEN "custom"
    ELSE IF Contains(command, S_time) THEN "time"
    ELSE IF ContainsAny(command, Greetings) THEN "greeting"
    ELSE IF Contains(command, S_date) THEN "date"
    ELSE IF Contains(command, S_weather) THEN "weather"
    ELSE IF Contains(command, S_send_email) \/ Contains(command, S_email) THEN "email"
    ELSE IF Contains(command, S_remind_me) \/ Contains(command, S_set_reminder)
         THEN "reminder"
    ELSE IF \E i \in 1..Len(Prefixes) : StartsWith(command, Prefixes[i])
         THEN "encyclopedia"
    ELSE IF Contains(command, S_add_command) \/ Contains(command, S_create_command)
         THEN "add command"
    ELSE IF Contains(command, S_help) \/ Contains(command, S_commands) THEN "help"
    ELSE "fallback"

\* The if-cascade of process_command: the rule a non-empty command takes.
MatchRule(command, cc) ==
    IF ContainsAny(command, ExitWords) THEN "exit"
    ELSE IF HasKey(cc, command) THEN "custom"
    ELSE IF ContainsAny(command, Greetings) THEN "greeting"
    ELSE IF Contains(command, S_time) THEN "time"
    ELSE IF Contains(command, S_date) THEN "date"
    ELSE IF Contains(command, S_weather) THEN "weather"
    ELSE IF Contains(command, S_send_email) \/ Contains(command, S_email) THEN "email"
    ELSE IF Contains(command, S_remind_me) \/ Contains(command, S_set_reminder)
         THEN "reminder"
    ELSE IF \E i \in 1..Len(Prefixes) : StartsWith(command, Prefixes[i])
         THEN "encyclopedia"
    ELSE IF Contains(command, S_add_command) \/ Contains(command, S_create_command)
         THEN "add command"
    ELSE IF Contains(command, S_help) \/ Contains(command, S_commands) THEN "help"
    ELSE "fallback"

\* process_command is entered with a non-empty command that takes rule r.
Takes(r) ==
    /\ Running /\ pc = "process_command"
    /\ loc.command # E
    /\ MatchRule(loc.command, custom_commands) = r

\* if not command: return
empty_command ==
    /\ Running /\ pc = "process_command"
    /\ loc.command = E
    /\ Goto("loop") /\ loc' = NoLocals
    /\ UNCHANGED <<lis, store, workers, obs>> /\ Same

\* speak("Goodbye. Exiting now."); sys.exit(0)
rule_exit ==
    /\ Takes("exit") /\ Fire("exit")
    /\ Speak(Msg("Goodbye", E), "sys_exit0", "handler")
    /\ UNCHANGED <<lis, loc, store, workers>> /\ Same

\* speak(custom_commands[command]); a list loaded from the file has no
\* string subscript: TypeError.
rule_custom ==
    /\ Takes("custom") /\ Fire("custom")
    /\ IF custom_commands.kind = "dict"
       THEN Speak(Msg("text", GetItem(custom_commands, loc.command)),
                  "return", "handler")
       ELSE Goto("handler")
    /\ UNCHANGED <<lis, loc, store, workers>> /\ Same

rule_greeting ==
    /\ Takes("greeting") /\ Fire("greeting")
    /\ Speak(Msg("Hello", E), "return", "handler")
    /\ UNCHANGED <<lis, loc, store, workers>> /\ Same

rule_time ==
    /\ Takes("time") /\ Fire("time")
    /\ Speak(Msg("TimeIs", E), "return", "handler")
    /\ UNCHANGED <<lis, loc, store, workers>> /\ Same

rule_date ==
    /\ Takes("date") /\ Fire("date")
    /\ Speak(Msg("DateIs", E), "return", "handler")
    /\ UNCHANGED <<lis, loc, store, workers>> /\ Same

rule_help ==
    /\ Takes("help") /\ Fire("help")
    /\ Speak(Msg("Help", E), "return", "handler")
    /\ UNCHANGED <<lis, loc, store, workers>> /\ Same

rule_fallback ==
    /\ Takes("fallback") /\ Fire("fallback")
    /\ Speak(Msg("DidntUnderstand", E), "return", "handler")
    /\ UNCHANGED <<lis, loc, store, workers>> /\ Same

\* return from process_command to the while loop of main
return_to_main ==
    /\ Running /\ pc = "return"
    /\ Goto("loop") /\ loc' = NoLocals /\ NoObs
    /\ UNCHANGED <<lis, store, workers>> /\ Same

-----------------------------------------------------------------------------
\* weather

rule_weather ==
    /\ Takes("weather") /\ Fire("weather")
    /\ IF Contains(loc.command, S_in)
       THEN /\ loc' = [loc EXCEPT !.city = Strip(AfterFirst(loc.command, S_in))]
            /\ Goto("get_weather") /\ UNCHANGED lis
       ELSE /\ loc' = [loc EXCEPT !.city = DEFAULT_CITY]
            /\ SpeakThenListen(Msg("WhichCity", E), "city", "weather_city", "handler")
    /\ UNCHANGED <<store, workers>> /\ Same

\* if city_resp: city = city_resp
weather_city ==
    /\ Running /\ pc = "weather_city"
    /\ loc' = [loc EXCEPT !.city = IF heard # E THEN heard ELSE loc.city]
    /\ Goto("get_weather") /\ NoListen
    /\ UNCHANGED <<store, workers, obs>> /\ Same

\* get_weather: status 200
get_weather_ok ==
    /\ Running /\ pc = "get_weather"
    /\ Speak(Msg("WeatherIn", loc.city), "return", "weather_error")
    /\ UNCHANGED <<lis, loc, store, workers, obs>> /\ Same

\* get_weather: another status
get_weather_status ==
    /\ Running /\ pc = "get_weather"
    /\ Speak(Msg("CouldNotFetch", loc.city), "return", "weather_error")
    /\ UNCHANGED <<lis, loc, store, workers, obs>> /\ Same

\* get_weather: requests.get or r.json() raises
get_weather_raises ==
    /\ Running /\ pc = "get_weather"
    /\ Goto("weather_error")
    /\ UNCHANGED <<lis, loc, store, workers, obs>> /\ Same

\* except Exception: print; speak("Sorry, I couldn't get the weather ...")
weather_error ==
    /\ Running /\ pc = "weather_error"
    /\ Speak(Msg("WeatherSorry", E), "return", "handler")
    /\ UNCHANGED <<lis, loc, store, workers, obs>> /\ Same

-----------------------------------------------------------------------------
\* email

rule_email ==
    /\ Takes("email") /\ Fire("email")
    /\ Speak(Msg("WhoRecipient", E), "email_recipient", "handler")
    /\ UNCHANGED <<lis, loc, store, workers>> /\ Same

\* to_addr = input("Recipient email: ").strip(); speak; subject = listen_vosk()
email_recipient ==
    /\ Running /\ pc = "email_recipient"
    /\ \E raw \in Inputs("to_addr") : loc' = [loc EXCEPT !.to_addr = Strip(raw)]
    /\ SpeakThenListen(Msg("WhatSubject", E), "subject", "email_subject", "handler")
    /\ UNCHANGED <<store, workers, obs>> /\ Same

\* input() raises EOFError inside process_command
email_recipient_eof ==
    /\ Running /\ pc = "email_recipient"
    /\ Goto("handler")
    /\ UNCHANGED <<lis, loc, store, workers, obs>> /\ Same

email_subject ==
    /\ Running /\ pc = "email_subject"
    /\ loc' = [loc EXCEPT !.subject = heard]
    /\ SpeakThenListen(Msg("WhatSay", E), "message", "send_email", "handler")
    /\ UNCHANGED <<store, workers, obs>> /\ Same

\* send_email: the SMTP exchange succeeds
send_email_ok ==
    /\ Running /\ pc = "send_email"
    /\ Speak(Msg("EmailSent", E), "return", "email_error")
    /\ NoListen
    /\ UNCHANGED <<loc, store, workers, obs>> /\ Same

\* send_email: smtplib raises
send_email_raises ==
    /\ Running /\ pc = "send_email"
    /\ Goto("email_error") /\ NoListen
    /\ UNCHANGED <<loc, store, workers, obs>> /\ Same

email_error ==
    /\ Running /\ pc = "email_error"
    /\ Speak(Msg("EmailFailed", E), "return", "handler")
    /\ UNCHANGED <<lis, loc, store, workers, obs>> /\ Same

-----------------------------------------------------------------------------
\* encyclopedia

\* for prefix in (...): if q.startswith(prefix): q = q.replace(prefix, "", 1).strip()
StripPrefix(q) ==
    LET i == CHOOSE j \in 1..Len(Prefixes) :
                 /\ StartsWith(q, Prefixes[j])
                 /\ \A k \in 1..(j - 1) : ~StartsWith(q, Prefixes[k])
    IN  Strip(SubSeq(q, Len(Prefixes[i]) + 1, Len(q)))

rule_encyclopedia ==
    /\ Takes("encyclopedia") /\ Fire("encyclopedia")
    /\ loc' = [loc EXCEPT !.q = StripPrefix(loc.command)]
    /\ IF StripPrefix(loc.command) # E
       THEN Goto("answer_wikipedia") /\ UNCHANGED lis
       ELSE SpeakThenListen(Msg("WhatKnow", E), "query", "wikipedia_query", "handler")
    /\ UNCHANGED <<store, workers>> /\ Same

\* q2 = listen_vosk(); if q2: answer_wikipedia(q2)
wikipedia_query ==
    /\ Running /\ pc = "wikipedia_query"
    /\ IF heard # E
       THEN Goto("answer_wikipedia") /\ loc' = [loc EXCEPT !.q = heard]
       ELSE Goto("return") /\ UNCHANGED loc
    /\ NoListen
    /\ UNCHANGED <<store, workers, obs>> /\ Same

answer_wikipedia_ok ==
    /\ Running /\ pc = "answer_wikipedia"
    /\ Speak(Msg("Summary", loc.q), "return", "wikipedia_error")
    /\ UNCHANGED <<lis, loc, store, workers, obs>> /\ Same

answer_wikipedia_raises ==
    /\ Running /\ pc = "answer_wikipedia"
    /\ Goto("wikipedia_error")
    /\ UNCHANGED <<lis, loc, store, workers, obs>> /\ Same

wikipedia_error ==
    /\ Running /\ pc = "wikipedia_error"
    /\ Speak(Msg("WikipediaNotFound", E), "return", "handler")
    /\ UNCHANGED <<lis, loc, store, workers, obs>> /\ Same

-----------------------------------------------------------------------------
\* reminders

Max0(n) == IF n > 0 THEN n ELSE 0

\* set_reminder(text, minutes): start the daemon thread, then speak.
set_reminder(text, minutes) ==
    /\ workers' = Append(workers, [st |-> "sleeping", text |-> text,
                                   minutes |-> minutes,
                                   delay |-> Max0(minutes) * 60])
    /\ scheduled' = TRUE
    /\ Speak(Msg("ReminderSet", IntToStr(minutes)), "return", "reminder_except")

rule_reminder ==
    /\ Takes("reminder") /\ Fire("reminder")
    /\ SpeakThenListen(Msg("WhatRemind", E), "text", "reminder_text", "handler")
    /\ UNCHANGED <<loc, store, workers>> /\ Same

\* text = listen_vosk(); speak(...); minutes_text = listen_vosk()
reminder_text ==
    /\ Running /\ pc = "reminder_text"
    /\ loc' = [loc EXCEPT !.text = heard]
    /\ SpeakThenListen(Msg("HowManyMinutes", E), "minutes", "reminder_minutes",
                       "handler")
    /\ UNCHANGED <<store, workers, obs>> /\ Same

\* try: minutes = int(''.join(digits of minutes_text)); set_reminder(text, minutes)
\* int('') raises ValueError, which the bare except catches.
reminder_minutes ==
    /\ Running /\ pc = "reminder_minutes"
    /\ loc' = [loc EXCEPT !.minutes_text = heard]
    /\ IF Digits(heard) = E
       THEN /\ Speak(Msg("CouldntUnderstand", E), "return", "handler")
            /\ UNCHANGED <<workers, scheduled>>
       ELSE set_reminder(loc.text, ParseInt(Digits(heard)))
    /\ NoListen
    /\ UNCHANGED <<store, fired, spoken, cc0, file0, save_failed>> /\ Same

\* except: speak("I couldn't understand the time. Reminder not set.")
\* reached by whatever set_reminder raises, too.
reminder_except ==
    /\ Running /\ pc = "reminder_except"
    /\ Speak(Msg("CouldntUnderstand", E), "return", "handler")
    /\ UNCHANGED <<lis, loc, store, workers, obs>> /\ Same

\* worker: time.sleep(...) is over; speak(f"Reminder: {text}") prints
worker_speak ==
    /\ Running
    /\ \E i \in DOMAIN workers :
          /\ workers[i].st = "sleeping"
          /\ workers' = [workers EXCEPT ![i].st = "speaking"]
    /\ UNCHANGED <<ctl, lis, loc, store, obs>> /\ Same

\* worker: speak returns (or raises) and the thread ends
worker_done ==
    /\ Running
    /\ \E i \in DOMAIN workers :
          /\ workers[i].st = "speaking"
          /\ workers' = [workers EXCEPT ![i].st = "done"]
    /\ UNCHANGED <<ctl, lis, loc, store, obs>> /\ Same

\* The threads (0 is the main thread) that are inside speak().
Speakers ==
    (IF pc = "speaking" THEN {0} ELSE {})
        \cup {i \in DOMAIN workers : workers[i].st = "speaking"}

-----------------------------------------------------------------------------
\* add command and save_custom_commands

rule_add_command ==
    /\ Takes("add command") /\ Fire("add command")
    /\ SpeakThenListen(Msg("WhatPhrase", E), "trigger", "add_trigger", "handler")
    /\ UNCHANGED <<loc, store, workers>> /\ Same

\* trigger = listen_vosk(); if not trigger: speak(...); return
add_trigger ==
    /\ Running /\ pc = "add_trigger"
    /\ loc' = [loc EXCEPT !.trigger = heard]
    /\ IF heard = E
       THEN Speak(Msg("NoTrigger", E), "return", "handler") /\ NoListen
       ELSE SpeakThenListen(Msg("WhatRespond", E), "response", "add_response",
                            "handler")
    /\ UNCHANGED <<store, workers, obs>> /\ Same

\* add_response without the "if not response" test: an empty response is stored.
add_response_unchecked ==
    /\ Running /\ pc = "add_response"
    /\ loc' = [loc EXCEPT !.response = heard]
    /\ IF custom_commands.kind = "dict"
       THEN /\ custom_commands' = SetItem(custom_commands, loc.trigger, heard)
            /\ Goto("save_custom_commands")
       ELSE /\ Goto("handler")
            /\ UNCHANGED custom_commands
    /\ NoListen
    /\ UNCHANGED <<file, saving, pending, workers, obs>> /\ Same

\* response = listen_vosk(); if not response: speak(...); return
\* custom_commands[trigger] = response; save_custom_commands()
add_response ==
    /\ Running /\ pc = "add_response"
    /\ loc' = [loc EXCEPT !.response = heard]
    /\ IF heard = E
       THEN /\ Speak(Msg("NoResponse", E), "return", "handler")
            /\ UNCHANGED custom_commands
       ELSE IF custom_commands.kind = "dict"
       THEN /\ custom_commands' = SetItem(custom_commands, loc.trigger, heard)
            /\ Goto("save_custom_commands")
       ELSE /\ Goto("handler")
            /\ UNCHANGED custom_commands
    /\ NoListen
    /\ UNCHANGED <<file, saving, pending, workers, obs>> /\ Same

\* save_open with mode "a": the file is not truncated, the text is appended.
save_open_append ==
    /\ Running /\ pc = "save_custom_commands"
    /\ saving' = [active |-> TRUE, old |-> file, new |-> Dumps(custom_commands)]
    /\ file' = FileOf(file.data)
    /\ pending' = Dumps(custom_commands)
    /\ Goto("save_write")
    /\ UNCHANGED <<custom_commands, lis, loc, workers, obs>> /\ Same

\* open(CUSTOM_COMMANDS_FILE, "w"): the file is created or truncated
save_open ==
    /\ Running /\ pc = "save_custom_commands"
    /\ saving' = [active |-> TRUE, old |-> file, new |-> Dumps(custom_commands)]
    /\ file' = FileOf(<<>>)
    /\ pending' = Dumps(custom_commands)
    /\ Goto("save_write")
    /\ UNCHANGED <<custom_commands, lis, loc, workers, obs>> /\ Same

\* open raises OSError: except Exception prints "Failed to save ..."
save_open_fails ==
    /\ Running /\ pc = "save_custom_commands"
    /\ save_failed' = TRUE
    /\ Goto("add_confirm")
    /\ UNCHANGED <<fired, spoken, cc0, file0, scheduled>>
    /\ UNCHANGED <<store, lis, loc, workers>> /\ Same

\* json.dump writes the next chunk
save_write ==
    /\ Running /\ pc = "save_write" /\ pending # <<>>
    /\ file' = FileOf(Append(file.data, Head(pending)))
    /\ pending' = Tail(pending)
    /\ Goto("save_write")
    /\ UNCHANGED <<custom_commands, saving, lis, loc, workers, obs>> /\ Same

\* a write raises (disk full): the file is closed as it is, the error printed
save_write_fails ==
    /\ Running /\ pc = "save_write" /\ pending # <<>>
    /\ save_failed' = TRUE
    /\ pending' = <<>> /\ saving' = NoSave
    /\ Goto("add_confirm")
    /\ UNCHANGED <<fired, spoken, cc0, file0, scheduled>>
    /\ UNCHANGED <<custom_commands, file, lis, loc, workers>> /\ Same

\* all is written: the with block closes the file
save_close ==
    /\ Running /\ pc = "save_write" /\ pending = <<>>
    /\ saving' = NoSave
    /\ Goto("add_confirm")
    /\ UNCHANGED <<custom_commands, file, pending, lis, loc, workers, obs>> /\ Same

\* speak(f"Custom command added for trigger: {trigger}")
add_confirm ==
    /\ Running /\ pc = "add_confirm"
    /\ Speak(Msg("CommandAdded", loc.trigger), "return", "handler")
    /\ UNCHANGED <<lis, loc, store, workers, obs>> /\ Same

-----------------------------------------------------------------------------
Next ==
    \/ speak_begin \/ speak_end \/ speak_raises
    \/ startup_no_model \/ main \/ main_loop \/ main_got_command
    \/ main_type_command \/ main_type_command_eof \/ main_handler
    \/ KeyboardInterrupt \/ sys_exit \/ uncaught_exception \/ kill
    \/ listen_vosk \/ listen_recognized \/ listen_fallback
    \/ listen_typed \/ listen_typed_eof
    \/ empty_command \/ rule_exit \/ rule_custom \/ rule_greeting \/ rule_time
    \/ rule_date \/ rule_help \/ rule_fallback \/ return_to_main
    \/ rule_weather \/ weather_city \/ get_weather_ok \/ get_weather_status
    \/ get_weather_raises \/ weather_error
    \/ rule_email \/ email_recipient \/ email_recipient_eof \/ email_subject
    \/ send_email_ok \/ send_email_raises \/ email_error
    \/ rule_encyclopedia \/ wikipedia_query \/ answer_wikipedia_ok
    \/ answer_wikipedia_raises \/ wikipedia_error
    \/ rule_reminder \/ reminder_text \/ reminder_minutes \/ reminder_except
    \/ worker_speak \/ worker_done
    \/ rule_add_command \/ add_trigger \/ add_response
    \/ save_open \/ save_open_fails \/ save_write \/ save_write_fails
    \/ save_close \/ add_confirm

Spec == Init /\ [][Next]_vars

-----------------------------------------------------------------------------
\* Properties

\* process_command has ended for the current command: by return, by an
\* exception that reached main's handler, or at sys.exit(0) of the exit rule.
Ended == fired # {} /\ pc \in {"return", "handler", "sys_exit0"}

Last(seq) == seq[Len(seq)]
Said(m) == \E i \in 1..Len(spoken) : spoken[i] = m

\* The order of the rules as the specification lists them.
RuleOrder ==
    <<"exit", "custom", "greeting", "time", "date", "weather", "email",
      "reminder", "encyclopedia", "add command", "help", "fallback">>

\* The condition of each rule as the specification words it.
Satisfies(r, u, cc) ==
    CASE r = "exit" -> \E w \in {S_exit, S_quit, S_stop, S_bye} : Contains(u, w)
      [] r = "custom" -> \E i \in 1..Len(cc.items) : cc.items[i].k = u
      [] r = "greeting" -> \E w \in {S_hello, S_hi, S_hey} : Contains(u, w)
      [] r = "time" -> Contains(u, S_time)
      [] r = "date" -> Contains(u, S_date)
      [] r = "weather" -> Contains(u, S_weather)
      [] r = "email" -> Contains(u, S_send_email) \/ Contains(u, S_email)
      [] r = "reminder" -> Contains(u, S_remind_me) \/ Contains(u, S_set_reminder)
      [] r = "encyclopedia" ->
           \E w \in {S_who_is, S_what_is, S_tell_me_about} : StartsWith(u, w)
      [] r = "add command" ->
           Contains(u, S_add_command) \/ Contains(u, S_create_command)
      [] r = "help" -> Contains(u, S_help) \/ Contains(u, S_commands)
      [] OTHER -> TRUE

FirstRule(u, cc) ==
    RuleOrder[CHOOSE i \in 1..Len(RuleOrder) :
                 /\ Satisfies(RuleOrder[i], u, cc)
                 /\ \A k \in 1..(i - 1) : ~Satisfies(RuleOrder[k], u, cc)]

\* C1: when process_command has ended for a non-empty command that is a key
\* of the custom-command dict with response R, it has spoken exactly R and
\* only the custom rule has acted; unless the command contains an exit
\* phrase, and then exactly the farewell was spoken and only the exit rule
\* has acted.
C1_CustomCommandFirst ==
    (Ended /\ cc0.kind = "dict" /\ HasKey(cc0, loc.command)) =>
        IF \E w \in {S_exit, S_quit, S_stop, S_bye} : Contains(loc.command, w)
        THEN fired = {"exit"} /\ spoken = <<Msg("Goodbye", E)>>
        ELSE /\ fired = {"custom"}
             /\ spoken = <<Msg("text", GetItem(cc0, loc.command))>>
             /\ pc # "sys_exit0"

\* C1 witness: "hi", registered at run time with response "ok" over the
\* loaded "no", was dispatched and answered with "ok", not with the greeting.
C1_Witness ==
    /\ pc = "return" /\ fired = {"custom"} /\ loc.command = S_hi
    /\ HasKey(cc0, S_hi) /\ GetItem(cc0, S_hi) = S_ok
    /\ spoken = <<Msg("text", S_ok)>>

C3_AddCancelled ==
    /\ (Ended /\ fired = {"add command"} /\ (loc.trigger = E \/ loc.response = E)) =>
           /\ spoken # <<>>
           /\ Last(spoken) = Msg(IF loc.trigger = E THEN "NoTrigger" ELSE "NoResponse", E)
           /\ custom_commands = cc0 /\ file = file0
           /\ saving = NoSave /\ ~save_failed
    /\ (fired # {} /\ (custom_commands # cc0 \/ file # file0)) =>
           /\ fired = {"add command"}
           /\ loc.trigger \notin {E, Unbound}
           /\ loc.response \notin {E, Unbound}

\* C3 witness: add command, trigger "hi", empty response: cancelled.
C3_Witness ==
    /\ pc = "return" /\ fired = {"add command"}
    /\ loc.trigger = S_hi /\ loc.response = E
    /\ Said(Msg("NoResponse", E))

\* What a fresh process loads from the file holds trigger -> response.
Reloaded ==
    LET m == LoadCommands(file)
    IN  /\ m.kind = "dict"
        /\ HasKey(m, loc.trigger)
        /\ GetItem(m, loc.trigger) = loc.response

\* C4 as stated: once the upsert (assignment and save_custom_commands) is
\* completed, loading the file yields trigger -> response, also when the save
\* failed.
C4_RoundTripAlways == pc = "add_confirm" => Reloaded

\* C4 amended: once the upsert is completed and save_custom_commands did not
\* report a failure, loading the file yields a dict with trigger -> response.
C4_RoundTripWhenSaved == (pc = "add_confirm" /\ ~save_failed) => Reloaded

\* C4 witness: "hi" -> "ok" was upserted over a loaded "hi" -> "no" and saved.
C4_Witness ==
    /\ pc = "add_confirm" /\ ~save_failed
    /\ loc.trigger = S_hi /\ loc.response = S_ok
    /\ HasKey(cc0, S_hi) /\ GetItem(cc0, S_hi) = S_no

\* C5: if the process is killed during save_custom_commands, the file holds
\* the complete old content or the complete new content.
C5_SaveAtomic ==
    (proc = "killed" /\ saving.active) =>
        (file = saving.old \/ file = FileOf(saving.new))

\* C6: once the loop of main is running, no uncaught exception ends the
\* process.
C6_NoErrorEndsTheLoop == ~(proc = "uncaught" /\ where = "loop")

\* C7: at most one thread is inside speak() at a time.
C7_SpeakSerialized == Cardinality(Speakers) <= 1

\* The reminder thread the current command started.
Started == workers[Len(workers)]

\* C8 as stated: the minutes reply "uh twenty" schedules a reminder of 20
\* minutes.
C8_UhTwentyIs20 ==
    (fired = {"reminder"} /\ loc.minutes_text = S_uh_twenty) =>
        /\ scheduled /\ workers # <<>>
        /\ Started.minutes = 20

\* C8 amended: the minutes reply "uh 20" is parsed to 20 and a reminder thread
\* with that text and a delay of 20 minutes is started; the reply "uh twenty"
\* holds no digit and starts none.
C8_UhDigits20Is20 ==
    /\ (fired = {"reminder"} /\ loc.minutes_text = S_uh_20) =>
           /\ scheduled /\ workers # <<>>
           /\ Started.minutes = 20 /\ Started.delay = 20 * 60
           /\ Started.text = loc.text
    /\ (fired = {"reminder"} /\ loc.minutes_text = S_uh_twenty) =>
           /\ ~scheduled
           /\ (Ended => Last(spoken) = Msg("CouldntUnderstand", E))

\* C8 witness: the reply "uh 20" was given and the confirmation is spoken.
C8_Witness ==
    /\ fired = {"reminder"} /\ loc.minutes_text = S_uh_20 /\ scheduled
    /\ pc = "speaking" /\ say = Msg("ReminderSet", S_20)

\* C9: when the reminder intent has ended after a minutes reply without a
\* digit, "couldn't understand the time" was spoken and no thread was started;
\* and "Reminder not set" was spoken only if the intent started no thread.
C9_NotSetMeansNoneSet ==
    (Ended /\ fired = {"reminder"}) =>
        /\ (loc.minutes_text # Unbound /\ Digits(loc.minutes_text) = E) =>
               (Said(Msg("CouldntUnderstand", E)) /\ ~scheduled)
        /\ Said(Msg("CouldntUnderstand", E)) => ~scheduled

\* C10: the store is a dict and every key of it is non-empty, trimmed and
\* lowercase.
C10_KeysNormalized ==
    /\ custom_commands.kind = "dict"
    /\ \A i \in 1..Len(custom_commands.items) :
          /\ custom_commands.items[i].k # E
          /\ custom_commands.items[i].k = Normalize(custom_commands.items[i].k)

====
